---- MODULE Spec2Model ----
(***************************************************************************)
(* mc2lib code generation: AssemblerState (identifier allocation, write    *)
(* index, get_write resolution) and Compiler (emit, address index,         *)
(* ip_to_op, update_from), after include/mc2lib/codegen/compiler.hpp.      *)
(*                                                                         *)
(* Pointers to events are modelled by the event values themselves: the     *)
(* witness stores events in a set keyed by value, and insert returns the   *)
(* stored element, so two equal events are one object.                     *)
(***************************************************************************)
EXTENDS Integers, Sequences, FiniteSets, TLC

VARIABLES
    strict,          \* build configuration: TRUE iff assert() is compiled in
    halted,          \* "no", or how the program stopped: "assert" / "fault"
    last_write_id_,  \* AssemblerState::last_write_id_ (uint8_t)
    last_read_id_,   \* AssemblerState::last_read_id_ (uint64_t, four 16-bit limbs)
    writes_,         \* AssemblerState::writes_ : WriteID -> event
    ew_events,       \* ew_->events, the witness' event set
    ip_to_op_,       \* Compiler::ip_to_op_ : start -> [end, op]
    last_op,         \* the caller's cell that emit's last_op argument points to
    ret,             \* the last call: its name, arguments and result
    allocated,       \* history: <<[id, event]>> handed out by make_write this epoch
    epoch_log,       \* history: the assembler's calls of this epoch, with their arguments
    made,            \* history: results of the make_read/make_write calls this epoch
    stale_ids,       \* history: write ids allocated in earlier epochs
    reset_exhausted, \* history: exhausted() held when the last reset was called
    threads_,        \* Compiler::threads_ : NullThreads, or a table pid -> operations
    op_state,        \* per Operation: how far the Compiler has taken it this epoch
    ub_hit,          \* history: a lookup has decremented begin() (undefined behaviour)
    heap,            \* Operation instances by address: [pid, origin] (origin: cloned from)
    containers,      \* the caller's containers of OperationPtr, by name
    tables,          \* the Threads tables threads_extract has returned, in call order
    ew_rel,          \* ew_->po, ew_->rf, ew_->co: the witness' relations
    mem_state,       \* per memory operation: its events, its ids, where it was emitted
    budget           \* calls made so far, per kind (bounds the exploration)

vars == <<strict, halted, last_write_id_, last_read_id_, writes_, ew_events,
          ip_to_op_, last_op, threads_, op_state, ret, allocated, made, stale_ids,
          reset_exhausted, ub_hit, heap, containers, tables, ew_rel, mem_state,
          budget, epoch_log>>

asm_vars == <<last_write_id_, last_read_id_, writes_, ew_events>>
asm_hist == <<allocated, made, stale_ids, reset_exhausted, epoch_log>>
comp_vars == <<ip_to_op_, last_op, threads_, op_state>>
ext_vars == <<heap, containers, tables>>
mem_vars == <<ew_rel, mem_state>>

-----------------------------------------------------------------------------
(* Bounds of the exploration *)

MaxMakes == 2       \* make_read / make_write calls per epoch
MaxGets == 1        \* get_write calls per epoch
MaxResets == 1      \* resets per behaviour
PrefixCalls == 30   \* full-size make_write calls behind an initial state near exhaustion
MaxEmits == 4       \* emit calls per epoch
MaxBase == 3        \* largest base address handed to emit

Pids == {-1, 0, 1}          \* thread ids; -1 is the one get_write reserves
Addrs == {1, 2}             \* base addresses of memory operations
Sizes == {1, 2, 8}          \* sizes in bytes: smallest, largest, one between
Ops == {"a", "b"}           \* Operation instances
Lens == {0, 1, 3}           \* bytes a backend produces; 0 is the default emit_X86_64

\* A const Threads*: nullptr, or the address of a table pid -> operations.
NullThreads == [null |-> TRUE, table |-> <<>>]
ThreadsPtr(table) == [null |-> FALSE, table |-> table]

-----------------------------------------------------------------------------
(* Types: WriteID is uint8_t, Poi and Addr are 64-bit unsigned.  A 64-bit  *)
(* value is four 16-bit limbs, most significant first.                     *)

SizeofWriteID == 1
WriteIDMod == 2 ^ 8
LimbMod == 2 ^ 16

Poi(n) == <<0, 0, 0, n>>

PoiInc(p) ==
    IF p[4] + 1 < LimbMod THEN <<p[1], p[2], p[3], p[4] + 1>>
    ELSE IF p[3] + 1 < LimbMod THEN <<p[1], p[2], p[3] + 1, 0>>
    ELSE IF p[2] + 1 < LimbMod THEN <<p[1], p[2] + 1, 0, 0>>
    ELSE IF p[1] + 1 < LimbMod THEN <<p[1] + 1, 0, 0, 0>>
    ELSE <<0, 0, 0, 0>>

PoiDec(p) ==
    IF p[4] > 0 THEN <<p[1], p[2], p[3], p[4] - 1>>
    ELSE IF p[3] > 0 THEN <<p[1], p[2], p[3] - 1, LimbMod - 1>>
    ELSE IF p[2] > 0 THEN <<p[1], p[2] - 1, LimbMod - 1, LimbMod - 1>>
    ELSE IF p[1] > 0 THEN <<p[1] - 1, LimbMod - 1, LimbMod - 1, LimbMod - 1>>
    ELSE <<LimbMod - 1, LimbMod - 1, LimbMod - 1, LimbMod - 1>>

PoiLess(p, q) ==
    \E k \in 1..4 : p[k] < q[k] /\ \A j \in 1..(k - 1) : p[j] = q[j]

PoiGeq(p, q) == ~PoiLess(p, q)

Iiid(pid, poi) == [pid |-> pid, poi |-> poi]

Event(type, addr, iiid) == [type |-> type, addr |-> addr, iiid |-> iiid]

-----------------------------------------------------------------------------
(* AssemblerState *)

MAX_INST_SIZE == 8
MAX_INST_EVTS == MAX_INST_SIZE \div SizeofWriteID
INIT_WRITE == 0
MIN_WRITE == INIT_WRITE + 1
MAX_WRITE == 255 - (MAX_INST_EVTS - 1)
MIN_READ == <<32768, 0, 0, 0>>
MAX_READ == <<65535, 65535, 65535, 65535 - (MAX_INST_EVTS - 1)>>
InitPid == -1

\* The witness' relations after ew_->clear().
NoRelations == [po |-> {}, rf |-> {}, co |-> {}]

\* A memory operation after Operation::reset(): no cached events.
MemReset == [evts |-> <<>>, data |-> <<>>, at |-> -1]

\* The assembler's fields as one record, so that its methods are operators.
Asms == [last_write_id_ |-> last_write_id_, last_read_id_ |-> last_read_id_,
         writes_ |-> writes_, events |-> ew_events]

\* Mutant of asms_reset: the write counter survives the reset.
asms_reset_keeps_counter(st) ==
    [last_write_id_ |-> st.last_write_id_,
     last_read_id_ |-> PoiDec(MIN_READ),
     writes_ |-> <<>>,
     events |-> {}]

\* Mutant of asms_reset: the write index is not cleared.
asms_reset_keeps_writes(st) ==
    [last_write_id_ |-> (MIN_WRITE - 1) % WriteIDMod,
     last_read_id_ |-> PoiDec(MIN_READ),
     writes_ |-> st.writes_,
     events |-> {}]

\* Mutant of asms_reset: ew_->clear() is forgotten.
asms_reset_keeps_events(st) ==
    [last_write_id_ |-> (MIN_WRITE - 1) % WriteIDMod,
     last_read_id_ |-> PoiDec(MIN_READ),
     writes_ |-> <<>>,
     events |-> st.events]

asms_reset(st) ==
    [last_write_id_ |-> (MIN_WRITE - 1) % WriteIDMod,
     last_read_id_ |-> PoiDec(MIN_READ),
     writes_ |-> <<>>,
     events |-> {}]

\* Mutant of exhausted: the counters are compared with > instead of >=.
exhausted_strictly_above(st) ==
    st.last_write_id_ > MAX_WRITE \/ PoiLess(MAX_READ, st.last_read_id_)

\* Mutant of exhausted: the write counter is not looked at.
exhausted_reads_only(st) == PoiGeq(st.last_read_id_, MAX_READ)

\* Mutant of exhausted: the margin of MAX_INST_EVTS - 1 ids is forgotten.
exhausted_no_margin(st) ==
    st.last_write_id_ >= 255 \/ PoiGeq(st.last_read_id_, MAX_READ)

exhausted(st) ==
    st.last_write_id_ >= MAX_WRITE \/ PoiGeq(st.last_read_id_, MAX_READ)

\* Mutant of mkevt_write: one id per call instead of one per sub-word.
mkevt_write_one_id(st, pid, type, addr, offset) ==
    LET write_id == IF offset = 0 THEN (st.last_write_id_ + 1) % WriteIDMod
                    ELSE st.last_write_id_
        event == Event(type, addr + offset, Iiid(pid, Poi(write_id)))
    IN  [st EXCEPT !.last_write_id_ = write_id,
                   !.writes_ = (write_id :> event) @@ st.writes_,
                   !.events = st.events \cup {event},
                   !.data = Append(st.data, write_id),
                   !.result = Append(st.result, event)]

\* The lambda of make_write: pre-increment the 8-bit counter, build the event,
\* store the id in data[offset], index the inserted event under the id.
mkevt_write(st, pid, type, addr, offset) ==
    LET write_id == (st.last_write_id_ + 1) % WriteIDMod
        event == Event(type, addr + offset, Iiid(pid, Poi(write_id)))
    IN  [st EXCEPT !.last_write_id_ = write_id,
                   !.writes_ = (write_id :> event) @@ st.writes_,
                   !.events = st.events \cup {event},
                   !.data = Append(st.data, write_id),
                   !.result = Append(st.result, event)]

\* Mutant of mkevt_read: the counter is read but not incremented.
mkevt_read_no_increment(st, pid, type, addr, offset) ==
    LET read_id == st.last_read_id_
        event == Event(type, addr + offset, Iiid(pid, read_id))
    IN  [st EXCEPT !.last_read_id_ = read_id,
                   !.events = st.events \cup {event},
                   !.result = Append(st.result, event)]

\* The lambda of make_read: pre-increment the 64-bit counter, build the event.
mkevt_read(st, pid, type, addr, offset) ==
    LET read_id == PoiInc(st.last_read_id_)
        event == Event(type, addr + offset, Iiid(pid, read_id))
    IN  [st EXCEPT !.last_read_id_ = read_id,
                   !.events = st.events \cup {event},
                   !.result = Append(st.result, event)]

\* make_event's loop: i runs over the sub-words, offset = i * sizeof(WriteID).
RECURSIVE make_event(_, _, _, _, _, _, _)
make_event(st, kind, pid, type, addr, size, i) ==
    IF i >= size \div SizeofWriteID THEN st
    ELSE LET offset == i * SizeofWriteID
             nxt == IF kind = "write"
                    THEN mkevt_write(st, pid, type, addr, offset)
                    ELSE mkevt_read(st, pid, type, addr, offset)
         IN  make_event(nxt, kind, pid, type, addr, size, i + 1)

\* The asserts of make_event on size, and on exhausted().
make_event_pre(st, size) ==
    /\ size <= MAX_INST_SIZE
    /\ SizeofWriteID <= size
    /\ size % SizeofWriteID = 0
    /\ ~exhausted(st)

\* A call's working state: the assembler's fields, the caller's data buffer and
\* the result array.
call_state(st) ==
    [last_write_id_ |-> st.last_write_id_, last_read_id_ |-> st.last_read_id_,
     writes_ |-> st.writes_, events |-> st.events,
     data |-> <<>>, result |-> <<>>, halted |-> "no"]

\* The assembler's fields out of a call's working state.
asms_of(r) ==
    [last_write_id_ |-> r.last_write_id_, last_read_id_ |-> r.last_read_id_,
     writes_ |-> r.writes_, events |-> r.events]

make_write(st, pid, type, addr, size) ==
    make_event(call_state(st), "write", pid, type, addr, size, 0)

make_read(st, pid, type, addr, size) ==
    make_event(call_state(st), "read", pid, type, addr, size, 0)

\* Mutant of initial_event: the event is placed at address 0 whatever is queried.
initial_event_at_zero(addr) == Event("Write", 0, Iiid(InitPid, Poi(0)))

\* The synthetic initial write of get_write.
initial_event(addr) == Event("Write", addr, Iiid(InitPid, Poi(addr)))

\* Mutant of get_write_valid: the Iiid test is inverted.
get_write_valid_same_iiid(st, after_i, addr, id) ==
    /\ id # INIT_WRITE
    /\ id \in DOMAIN st.writes_
    /\ st.writes_[id].addr = addr
    /\ st.writes_[id].iiid = after_i.iiid

\* `valid` in get_write, for one sub-word.
get_write_valid(st, after_i, addr, id) ==
    /\ id # INIT_WRITE
    /\ id \in DOMAIN st.writes_
    /\ st.writes_[id].addr = addr
    /\ st.writes_[id].iiid # after_i.iiid

\* Mutant of get_write_stops: the call goes on in every build.
get_write_stops_never(is_strict, id) == FALSE

\* assert(false) of get_write, reached for an id other than INIT_WRITE.
get_write_stops(is_strict, id) == id # INIT_WRITE /\ is_strict

\* get_write's loop; addr advances by sizeof(WriteID) per sub-word.  With
\* assert() compiled in, a failed resolution of an id other than INIT_WRITE
\* stops the program at that sub-word.
RECURSIVE get_write_loop(_, _, _, _, _, _, _)
get_write_loop(st, is_strict, after, addr, from_id, size, i) ==
    IF i >= size \div SizeofWriteID THEN st
    ELSE LET id == from_id[i + 1]
         IN  IF get_write_valid(st, after[i + 1], addr, id)
             THEN get_write_loop([st EXCEPT !.result = Append(@, st.writes_[id])],
                                 is_strict, after, addr + SizeofWriteID, from_id, size, i + 1)
             ELSE IF get_write_stops(is_strict, id)
             THEN [st EXCEPT !.halted = "assert"]
             ELSE LET initial == initial_event(addr)
                  IN  get_write_loop([st EXCEPT !.events = @ \cup {initial},
                                                !.result = Append(@, initial)],
                                     is_strict, after, addr + SizeofWriteID, from_id, size, i + 1)

get_write(st, is_strict, after, addr, from_id, size) ==
    get_write_loop(call_state(st), is_strict, after, addr, from_id, size, 0)

-----------------------------------------------------------------------------
(* The AssemblerState driven directly by a caller *)

WriteTypes == {"Write"}
ReadTypes == {"Read"}

Max(S) == CHOOSE x \in S : \A y \in S : y <= x

\* [id, event] pairs of one make_write call, in allocation order.
Pairs(r) == [k \in 1..Len(r.data) |-> [id |-> r.data[k], event |-> r.result[k]]]

\* The entries of the call log.
LogMake(op, pid, type, addr, size) ==
    [op |-> op, pid |-> pid, type |-> type, addr |-> addr, size |-> size]

LogGet(after, addr, from_id, size) ==
    [op |-> "get_write", after |-> after, addr |-> addr, from_id |-> from_id, size |-> size]

\* One more make_write call of full size by thread 0 at address 1.
PrefixStep(p) ==
    LET r == make_write(p.st, 0, "Write", 1, MAX_INST_SIZE)
    IN  [st |-> asms_of(r), allocated |-> p.allocated \o Pairs(r),
         log |-> Append(p.log, LogMake("make_write", 0, "Write", 1, MAX_INST_SIZE))]

\* The state n such calls after construction (the constructor resets).
RECURSIVE Prefix(_, _)
Prefix(p, n) ==
    IF n = 0 THEN p
    ELSE LET q == PrefixStep(p)
         IN  IF q.st.last_write_id_ = p.st.last_write_id_ THEN q ELSE Prefix(q, n - 1)

Constructed ==
    [st |-> asms_reset([last_write_id_ |-> 0, last_read_id_ |-> Poi(0),
                        writes_ |-> <<>>, events |-> {}]),
     allocated |-> <<>>, log |-> <<>>]

InitBase ==
    /\ strict \in BOOLEAN
    /\ halted = "no"
    /\ ip_to_op_ = <<>>
    /\ last_op = "nullptr"
    /\ ret = [op |-> "init"]
    /\ made = {}
    /\ stale_ids = {}
    /\ reset_exhausted = FALSE
    /\ op_state = [o \in Ops |-> "Reset"]
    /\ ub_hit = FALSE
    /\ ew_rel = NoRelations
    /\ budget = [makes |-> 0, gets |-> 0, resets |-> 0, emits |-> 0, lookups |-> 0,
                 iiids |-> 0]

\* No operation instances, containers or tables of the caller's yet.
InitCommon ==
    /\ InitBase
    /\ threads_ = NullThreads
    /\ heap = <<>>
    /\ containers = <<>>
    /\ tables = <<>>
    /\ mem_state = <<>>

InitFrom(p) ==
    /\ InitCommon
    /\ last_write_id_ = p.st.last_write_id_
    /\ last_read_id_ = p.st.last_read_id_
    /\ writes_ = p.st.writes_
    /\ ew_events = p.st.events
    /\ allocated = p.allocated
    /\ epoch_log = p.log

SetAsms(r) ==
    /\ last_write_id_' = r.last_write_id_
    /\ last_read_id_' = r.last_read_id_
    /\ writes_' = r.writes_
    /\ ew_events' = r.events

\* What a reset does to the history and the budgets.
ResetHist ==
    /\ reset_exhausted' = exhausted(Asms)
    /\ stale_ids' = stale_ids \cup {allocated[k].id : k \in 1..Len(allocated)}
    /\ allocated' = <<>>
    /\ made' = {}
    /\ epoch_log' = <<>>
    /\ budget' = [makes |-> 0, gets |-> 0, resets |-> budget.resets + 1,
                  emits |-> budget.emits, lookups |-> 0, iiids |-> budget.iiids]

\* AssemblerState::reset
AsmReset ==
    /\ halted = "no"
    /\ budget.resets < MaxResets
    /\ SetAsms(asms_reset(Asms))
    /\ ret' = [op |-> "reset"]
    /\ ResetHist
    /\ ew_rel' = NoRelations
    /\ UNCHANGED <<strict, halted, comp_vars, ub_hit, ext_vars, mem_state>>

\* AssemblerState::make_write, before any get_write of the epoch (emission
\* precedes resolution).
MakeWrite(P, A, S) ==
    /\ halted = "no"
    /\ budget.makes < MaxMakes
    /\ budget.gets = 0
    /\ \E pid \in P, type \in WriteTypes, addr \in A, size \in S :
          /\ make_event_pre(Asms, size)
          /\ \E r \in {make_write(Asms, pid, type, addr, size)} :
                 /\ SetAsms(r)
                 /\ ret' = [op |-> "make_write", pid |-> pid, type |-> type, addr |-> addr,
                            size |-> size, data |-> r.data, result |-> r.result]
                 /\ allocated' = allocated \o Pairs(r)
                 /\ made' = made \cup {[kind |-> "write", data |-> r.data, result |-> r.result]}
                 /\ epoch_log' = Append(epoch_log, LogMake("make_write", pid, type, addr, size))
    /\ budget' = [budget EXCEPT !.makes = @ + 1]
    /\ UNCHANGED <<strict, halted, stale_ids, reset_exhausted, comp_vars, ub_hit,
                   ext_vars, mem_vars>>

\* AssemblerState::make_read
MakeRead(P, A, S) ==
    /\ halted = "no"
    /\ budget.makes < MaxMakes
    /\ budget.gets = 0
    /\ \E pid \in P, type \in ReadTypes, addr \in A, size \in S :
          /\ make_event_pre(Asms, size)
          /\ \E r \in {make_read(Asms, pid, type, addr, size)} :
                 /\ SetAsms(r)
                 /\ ret' = [op |-> "make_read", pid |-> pid, type |-> type, addr |-> addr,
                            size |-> size, result |-> r.result]
                 /\ made' = made \cup {[kind |-> "read", data |-> <<>>, result |-> r.result]}
                 /\ epoch_log' = Append(epoch_log, LogMake("make_read", pid, type, addr, size))
    /\ budget' = [budget EXCEPT !.makes = @ + 1]
    /\ UNCHANGED <<strict, halted, allocated, stale_ids, reset_exhausted, comp_vars, ub_hit,
                   ext_vars, mem_vars>>

\* An event of the caller's own that no make_write can have produced.
ForeignAfter(addr, n) == [k \in 1..n |-> Event("Read", addr + k - 1, Iiid(0, Poi(0)))]

\* The `after` array: the events of an earlier make_read or make_write, or foreign ones.
AfterArgs(addr, n) ==
    {SubSeq(m.result, 1, n) : m \in {x \in made : Len(x.result) >= n}}
        \cup {ForeignAfter(addr, n)}

\* Observed memory: what a make_write stored, INIT_WRITE throughout, one id of
\* an earlier epoch throughout, or a run of ids from INIT_WRITE upwards.
FromIdArgs(n) ==
    {SubSeq(m.data, 1, n) : m \in {x \in made : Len(x.data) >= n}}
        \cup {[k \in 1..n |-> INIT_WRITE]}
        \cup {[k \in 1..n |-> c] : c \in IF stale_ids = {} THEN {} ELSE {Max(stale_ids)}}
        \cup {[k \in 1..n |-> (INIT_WRITE + k - 1) % WriteIDMod]}

\* AssemblerState::get_write
GetWrite(A, S) ==
    /\ halted = "no"
    /\ budget.gets < MaxGets
    /\ \E addr \in A, size \in S :
       \E after \in AfterArgs(addr, size), from_id \in FromIdArgs(size) :
       \E r \in {get_write(Asms, strict, after, addr, from_id, size)} :
              /\ SetAsms(r)
              /\ halted' = r.halted
              /\ ret' = [op |-> "get_write", after |-> after, addr |-> addr,
                         from_id |-> from_id, size |-> size, result |-> r.result,
                         before |-> Asms]
              /\ epoch_log' = Append(epoch_log, LogGet(after, addr, from_id, size))
    /\ budget' = [budget EXCEPT !.gets = @ + 1]
    /\ UNCHANGED <<strict, allocated, made, stale_ids, reset_exhausted, comp_vars, ub_hit,
                   ext_vars, mem_vars>>

\* The assembler from construction on.
InitAsm == InitFrom(Constructed)

NextAsm ==
    \/ AsmReset
    \/ MakeWrite({InitPid, 0}, Addrs, Sizes)
    \/ MakeRead({0}, {1}, {1, MAX_INST_SIZE})
    \/ GetWrite(Addrs, Sizes)

SpecAsm == InitAsm /\ [][NextAsm]_vars

\* The assembler near exhaustion of the write ids.
InitExh == \E p \in {Prefix(Constructed, PrefixCalls)} : InitFrom(p)

NextExh ==
    \/ AsmReset
    \/ MakeWrite({0, 1}, {1}, {1, MAX_INST_SIZE - 1, MAX_INST_SIZE})
    \/ MakeRead({0}, {1}, {1})
    \/ GetWrite({1}, {1})

SpecExh == InitExh /\ [][NextExh]_vars

-----------------------------------------------------------------------------
(* Properties of the AssemblerState *)

Range(f) == {f[x] : x \in DOMAIN f}

CurrentIds == {allocated[k].id : k \in 1..Len(allocated)}

NoReservedPid == \A k \in 1..Len(allocated) : allocated[k].event.iiid.pid # InitPid

\* C1: within an epoch, with exhausted() false before each make_write, the
\* write ids handed out are strictly increasing in allocation order (hence
\* pairwise distinct), and every one of them is a key of the write index that
\* maps to the event created for it.
C1_WriteIdsIncreasingAndIndexed ==
    /\ \A i, j \in 1..Len(allocated) : i < j => allocated[i].id < allocated[j].id
    /\ \A k \in 1..Len(allocated) :
          /\ allocated[k].id \in DOMAIN writes_
          /\ writes_[allocated[k].id] = allocated[k].event

\* C1 witness: two threads have allocated ids up to 0xFF in one epoch.
C1_Witness ==
    /\ ret.op = "make_write"
    /\ Len(allocated) > MAX_INST_EVTS
    /\ allocated[Len(allocated)].id = 255
    /\ \E i, j \in 1..Len(allocated) :
          allocated[i].event.iiid.pid # allocated[j].event.iiid.pid

\* C2: get_write on a sub-word whose observed id was stored by a make_write of
\* this epoch for that very address, with an after event of another Iiid,
\* returns the event that make_write returned; when that holds of every
\* sub-word the call returns all of them.
C2_RoundTrip ==
    ret.op = "get_write" =>
        LET Stored(i) == {k \in 1..Len(allocated) :
                            /\ allocated[k].id = ret.from_id[i]
                            /\ allocated[k].event.addr = ret.addr + (i - 1)
                            /\ allocated[k].event.iiid # ret.after[i].iiid}
        IN  /\ \A i \in 1..Len(ret.result) : \A k \in Stored(i) :
                  ret.result[i] = allocated[k].event
            /\ (\A i \in 1..ret.size : Stored(i) # {})
                  => halted = "no" /\ Len(ret.result) = ret.size

\* C2 witness: a full-size make_write has been read back whole.
C2_Witness ==
    /\ ret.op = "get_write"
    /\ ret.size = MAX_INST_SIZE
    /\ \E m \in made : m.kind = "write" /\ ret.from_id = m.data /\ ret.result = m.result

\* C3 as claimed: a sub-word observed as INIT_WRITE gets the synthetic initial
\* write of its address, which is none of the indexed events, and the write
\* index and both counters are as before the call.
C3_Original ==
    ret.op = "get_write" =>
        /\ \A i \in 1..Len(ret.result) :
              ret.from_id[i] = INIT_WRITE =>
                  /\ ret.result[i] =
                        Event("Write", ret.addr + (i - 1), Iiid(InitPid, Poi(ret.addr + (i - 1))))
                  /\ ret.result[i] \notin Range(writes_)
        /\ writes_ = ret.before.writes_
        /\ last_write_id_ = ret.before.last_write_id_
        /\ last_read_id_ = ret.before.last_read_id_

\* C3 amended: the same, the synthetic event being none of the indexed events
\* as long as no make_write of the epoch used the reserved pid -1.
C3_InitWriteSynthetic ==
    ret.op = "get_write" =>
        /\ \A i \in 1..Len(ret.result) :
              ret.from_id[i] = INIT_WRITE =>
                  /\ ret.result[i] =
                        Event("Write", ret.addr + (i - 1), Iiid(InitPid, Poi(ret.addr + (i - 1))))
                  /\ NoReservedPid => ret.result[i] \notin Range(writes_)
        /\ writes_ = ret.before.writes_
        /\ last_write_id_ = ret.before.last_write_id_
        /\ last_read_id_ = ret.before.last_read_id_

\* C3 witness: INIT_WRITE observed at a later sub-word while writes are indexed.
C3_Witness ==
    /\ ret.op = "get_write"
    /\ halted = "no"
    /\ writes_ # <<>>
    /\ NoReservedPid
    /\ \E i \in 2..Len(ret.result) :
          ret.from_id[i] = INIT_WRITE /\ ret.result[i].addr = ret.addr + (i - 1)

C5_ResetRestartsIds ==
    /\ ret.op = "reset" => ~exhausted(Asms) /\ DOMAIN writes_ = {}
    /\ (ret.op = "make_write" /\ budget.resets > 0 /\ Len(allocated) = Len(ret.data))
          => ret.data[1] = MIN_WRITE

\* C5 witness: the first make_write after a reset made in an exhausted state.
C5_Witness ==
    /\ ret.op = "make_write"
    /\ reset_exhausted
    /\ Len(allocated) = Len(ret.data)
    /\ ret.data[1] = MIN_WRITE

-----------------------------------------------------------------------------
(* Compiler<Backend> over abstract Operations: enable_emit, the backend's  *)
(* length and update_from's result are whatever the Operation chooses.     *)

\* What decrementing begin() and reading through it (undefined behaviour) can
\* give ip_to_op: a failed interval test, a garbage pointer, or a crash.
UBOutcomes == {"nullptr", "wild", "fault"}

\* The lookup decrements begin(): the index is not empty and every start is
\* above ip.
begin_decremented(m, ip) == DOMAIN m # {} /\ \A start \in DOMAIN m : start > ip

\* Mutant of ip_to_op: the end of the interval is not tested.
ip_to_op_no_end_test(m, ip) ==
    IF DOMAIN m = {} THEN {"nullptr"}
    ELSE IF begin_decremented(m, ip) THEN UBOutcomes
    ELSE LET e == Max({start \in DOMAIN m : start <= ip})
         IN  {m[e].op}

\* Mutant of ip_to_op: only the first address of an operation finds it.
ip_to_op_exact_key(m, ip) ==
    IF ip \in DOMAIN m THEN {m[ip].op} ELSE {"nullptr"}

\* Compiler::ip_to_op: the outcomes the call can have.  e = --upper_bound(ip)
\* is the entry with the greatest start <= ip; when every start is above ip,
\* upper_bound(ip) is begin() and the decrement is undefined.
ip_to_op(m, ip) ==
    IF DOMAIN m = {} THEN {"nullptr"}
    ELSE IF begin_decremented(m, ip) THEN UBOutcomes
    ELSE LET e == Max({start \in DOMAIN m : start <= ip})
         IN  IF ~(e <= ip /\ ip < m[e].end) THEN {"nullptr"} ELSE {m[e].op}

\* Mutant of emit_last_op: the caller's cell is left as it was.
emit_last_op_kept(last, op) == last

\* *last_op = op of emit: the operation linked becomes the last one.
emit_last_op(last, op) == op

\* Mutant of emit_len_refused: the backend's length is not looked at.
emit_len_unchecked(is_strict, op_len) == FALSE

\* assert(op_len != 0) of emit.
emit_len_refused(is_strict, op_len) == is_strict /\ op_len = 0

\* Mutant of emit_refused: the answer of enable_emit is ignored.
emit_refused_never(enabled) == FALSE

\* emit's early return: op->enable_emit(&asms_) answered false.
emit_refused(enabled) == ~enabled

\* Compiler::emit(base, op, code, len, last_op), use_last telling whether
\* last_op is the address of the caller's cell or nullptr.  The Operation
\* answers enable_emit with `enabled`, the backend returns op_len.
Emit(B, O, U, L) ==
    /\ halted = "no"
    /\ budget.emits < MaxEmits
    /\ budget.lookups = 0
    /\ budget' = [budget EXCEPT !.emits = @ + 1]
    /\ \E base \in B, op \in O, use_last \in U, enabled \in BOOLEAN :
          IF emit_refused(enabled)
          THEN /\ ret' = [op |-> "emit", base |-> base, operation |-> op,
                          use_last |-> use_last, enabled |-> FALSE, result |-> 0,
                          calls |-> <<[m |-> "enable_emit", o |-> op]>>,
                          before |-> [ip_to_op_ |-> ip_to_op_, last_op |-> last_op]]
               /\ UNCHANGED <<halted, ip_to_op_, last_op, op_state, ub_hit>>
          ELSE \E op_len \in L :
               \E found \in (IF strict /\ op_len # 0 THEN ip_to_op(ip_to_op_, base)
                              ELSE {"unchecked"}) :
                 /\ ret' = [op |-> "emit", base |-> base, operation |-> op,
                            use_last |-> use_last, enabled |-> enabled, result |-> op_len,
                            calls |-> <<[m |-> "enable_emit", o |-> op],
                                        [m |-> "insert_po", o |-> op,
                                         before |-> IF use_last THEN last_op ELSE "nullptr"],
                                        [m |-> "backend", o |-> op]>>,
                            before |-> [ip_to_op_ |-> ip_to_op_, last_op |-> last_op]]
                 /\ last_op' = IF use_last THEN op ELSE last_op
                 /\ ub_hit' = (ub_hit \/ (found # "unchecked"
                                            /\ begin_decremented(ip_to_op_, base)))
                 /\ IF emit_len_refused(strict, op_len)
                    THEN \* assert(op_len != 0)
                         /\ halted' = "assert"
                         /\ op_state' = [op_state EXCEPT ![op] = "PoInserted"]
                         /\ UNCHANGED ip_to_op_
                    ELSE IF found = "fault"
                    THEN /\ halted' = "fault"
                         /\ op_state' = [op_state EXCEPT ![op] = "PoInserted"]
                         /\ UNCHANGED ip_to_op_
                    ELSE IF found \notin {"nullptr", "unchecked"}
                    THEN \* assert(ip_to_op(base) == nullptr)
                         /\ halted' = "assert"
                         /\ op_state' = [op_state EXCEPT ![op] = "PoInserted"]
                         /\ UNCHANGED ip_to_op_
                    ELSE /\ ip_to_op_' = (base :> [end |-> base + op_len, op |-> op])
                                             @@ ip_to_op_
                         /\ op_state' = [op_state EXCEPT ![op] = "Emitted"]
                         /\ UNCHANGED halted
    /\ UNCHANGED <<strict, asm_vars, asm_hist, threads_, ext_vars, mem_vars>>

\* Compiler::ip_to_op(ip) called by the host.
IpToOp(I) ==
    /\ halted = "no"
    /\ \E ip \in I : \E found \in ip_to_op(ip_to_op_, ip) :
          /\ ret' = [op |-> "ip_to_op", ip |-> ip, result |-> found]
          /\ halted' = IF found = "fault" THEN "fault" ELSE "no"
          /\ ub_hit' = (ub_hit \/ begin_decremented(ip_to_op_, ip))
    /\ budget' = [budget EXCEPT !.lookups = 1]
    /\ UNCHANGED <<strict, asm_vars, asm_hist, comp_vars, ext_vars, mem_vars>>

\* Compiler::update_from(ip, part, addr, from_id, size): the owning Operation's
\* update_from answers `ok`.  A call through a garbage pointer crashes.
UpdateFrom(I) ==
    /\ halted = "no"
    /\ \E ip \in I : \E found \in ip_to_op(ip_to_op_, ip) :
          /\ ub_hit' = (ub_hit \/ begin_decremented(ip_to_op_, ip))
          /\ IF found = "nullptr"
             THEN /\ ret' = [op |-> "update_from", ip |-> ip, result |-> "false",
                             calls |-> <<>>,
                             before |-> [asms |-> Asms, ip_to_op_ |-> ip_to_op_]]
                  /\ UNCHANGED <<halted, op_state>>
             ELSE IF found \in {"fault", "wild"}
             THEN \* a garbage pointer is called through: op->update_from(...)
                  /\ ret' = [op |-> "update_from", ip |-> ip, result |-> "none",
                             calls |-> IF found = "wild"
                                       THEN <<[m |-> "update_from", o |-> found]>>
                                       ELSE <<>>,
                             before |-> [asms |-> Asms, ip_to_op_ |-> ip_to_op_]]
                  /\ halted' = "fault"
                  /\ UNCHANGED op_state
             ELSE \E ok \in {"true", "false"} :
                  /\ ret' = [op |-> "update_from", ip |-> ip, result |-> ok,
                             calls |-> <<[m |-> "update_from", o |-> found]>>,
                             before |-> [asms |-> Asms, ip_to_op_ |-> ip_to_op_]]
                  /\ op_state' = [op_state EXCEPT ![found] = "Updated"]
                  /\ UNCHANGED halted
    /\ budget' = [budget EXCEPT !.lookups = 1]
    /\ UNCHANGED <<strict, asm_vars, asm_hist, ip_to_op_, last_op, threads_, ext_vars,
                   mem_vars>>

\* The operations a thread table holds.
OpsOf(threads) ==
    IF threads.null THEN {}
    ELSE UNION {Range(threads.table[pid]) : pid \in DOMAIN threads.table}

\* Compiler::reset(threads)
CompReset(T) ==
    /\ halted = "no"
    /\ budget.resets < MaxResets
    /\ \E threads \in T :
          /\ threads_' = threads
          /\ op_state' = [o \in Ops |-> IF o \in OpsOf(threads) THEN "Reset" ELSE op_state[o]]
    /\ SetAsms(asms_reset(Asms))
    /\ ip_to_op_' = <<>>
    /\ ret' = [op |-> "compiler_reset"]
    /\ ResetHist
    /\ ew_rel' = NoRelations
    /\ mem_state' = [o \in DOMAIN mem_state |->
                        IF o \in OpsOf(threads_') THEN MemReset ELSE mem_state[o]]
    /\ UNCHANGED <<strict, halted, last_op, ub_hit, ext_vars>>

\* A thread table: operation a on thread 0, operation b on thread 1.
ThreadsAB == ThreadsPtr((0 :> <<"a">>) @@ (1 :> <<"b">>))

\* Instruction pointers a host may ask about.
Ips == 0..(MaxBase + 1)

\* The compiler from construction (which resets) on.
InitComp == InitFrom(Constructed)

NextComp ==
    \/ Emit(0..MaxBase, Ops, {FALSE}, Lens)
    \/ IpToOp(Ips)
    \/ UpdateFrom(Ips)
    \/ CompReset({ThreadsAB})

SpecComp == InitComp /\ [][NextComp]_vars

\* The compiler emitting operation after operation, the caller passing the
\* address of its last_op cell or nullptr.
NextPo ==
    \/ Emit(0..MaxBase, Ops, BOOLEAN, {0, 1})
    \/ IpToOp({0, MaxBase})
    \/ CompReset({ThreadsAB})

SpecPo == InitComp /\ [][NextPo]_vars

-----------------------------------------------------------------------------
(* Memory operations (a write and a read of one sub-word) driven through   *)
(* Compiler::emit(pid, ...) and Compiler::update_from                       *)

\* The memory operations: w and r on thread 0, x on thread 1; all at address 1.
MemOps == {"w", "r", "x"}
MemKind(o) == IF o = "r" THEN "read" ELSE "write"
MemPid(o) == IF o = "x" THEN 1 ELSE 0
MemAddr(o) == 1
MemLens == {1, 2}           \* bytes the encoder produces for a memory operation

\* The thread table of the memory operations.
ThreadsWR == ThreadsPtr((0 :> <<"w", "r">>) @@ (1 :> <<"x">>))

\* The compiler, the witness and the operations as one record, so that
\* emit's steps are operators; calls lists the Operation methods invoked.
CompState ==
    [asms |-> Asms, rel |-> ew_rel, mem |-> mem_state, ops |-> op_state,
     index |-> ip_to_op_, last |-> "nullptr", emit_len |-> 0, op_len |-> 0,
     halted |-> "no", ub |-> FALSE, calls |-> <<>>, allocated |-> allocated, made |-> made,
     log |-> epoch_log]

\* enable_emit of a memory operation: reserves the identifiers of its one
\* sub-word through make_write / make_read and keeps the events.
mem_enable_emit(cs, o) ==
    LET r == IF MemKind(o) = "write"
             THEN make_write(cs.asms, MemPid(o), "Write", MemAddr(o), SizeofWriteID)
             ELSE make_read(cs.asms, MemPid(o), "Read", MemAddr(o), SizeofWriteID)
    IN  [cs EXCEPT !.asms = asms_of(r),
                   !.mem[o] = [evts |-> r.result, data |-> r.data, at |-> -1],
                   !.allocated = @ \o Pairs(r),
                   !.log = Append(@, IF MemKind(o) = "write"
                                     THEN LogMake("make_write", MemPid(o), "Write", MemAddr(o),
                                                  SizeofWriteID)
                                     ELSE LogMake("make_read", MemPid(o), "Read", MemAddr(o),
                                                  SizeofWriteID)),
                   !.made = @ \cup {[kind |-> MemKind(o), data |-> r.data,
                                     result |-> r.result]}]

\* last_event of a memory operation: its last event, if it has one.
mem_last_event(cs, o) ==
    IF o \in MemOps /\ cs.mem[o].evts # <<>>
    THEN {cs.mem[o].evts[Len(cs.mem[o].evts)]} ELSE {}

\* insert_po of a memory operation: its first event comes after the last
\* event of the operation before it.
mem_insert_po(cs, o, before) ==
    [cs EXCEPT !.rel.po = @ \cup {<<e, cs.mem[o].evts[1]>> : e \in mem_last_event(cs, before)}]

\* Mutant of emit_find_thread: an unknown pid falls back on some thread.
emit_find_thread_fallback(table, pid) ==
    IF pid \in DOMAIN table THEN [found |-> TRUE, ops |-> table[pid]]
    ELSE [found |-> DOMAIN table # {},
          ops |-> IF DOMAIN table = {} THEN <<>>
                  ELSE table[CHOOSE q \in DOMAIN table : TRUE]]

\* threads_->find(pid) and the test against threads_->end().
emit_find_thread(table, pid) ==
    IF pid \in DOMAIN table THEN [found |-> TRUE, ops |-> table[pid]]
    ELSE [found |-> FALSE, ops |-> <<>>]

\* Compiler::emit(base, op, code, len, &last_op) as emit(pid, ...) calls it:
\* the outcomes, one per outcome of the ip_to_op in the assertion.  The
\* operation answers enable_emit with `enabled`, the backend returns op_len.
emit_one(cs, is_strict, base, o, enabled, op_len) ==
    LET c0 == [(IF o \in MemOps /\ enabled THEN mem_enable_emit(cs, o) ELSE cs)
                  EXCEPT !.calls = Append(@, [m |-> "enable_emit", o |-> o,
                                              result |-> enabled])]
        c1 == [(IF o \in MemOps THEN mem_insert_po(c0, o, cs.last) ELSE c0)
                  EXCEPT !.calls = Append(@, [m |-> "insert_po", o |-> o, before |-> cs.last]),
                         !.last = emit_last_op(cs.last, o)]
        c2 == [c1 EXCEPT !.calls = Append(@, [m |-> "backend", o |-> o, at |-> base,
                                              len |-> op_len]),
                         !.mem = IF o \in MemOps THEN [@ EXCEPT ![o].at = base] ELSE @,
                         !.ops = IF o \in Ops THEN [@ EXCEPT ![o] = "PoInserted"] ELSE @,
                         !.op_len = op_len]
    IN  IF emit_refused(enabled) THEN {[c0 EXCEPT !.op_len = 0]}
        ELSE IF emit_len_refused(is_strict, op_len) THEN {[c2 EXCEPT !.halted = "assert"]}
        ELSE {LET c3 == [c2 EXCEPT !.ub = @ \/ (found # "unchecked"
                                                 /\ begin_decremented(c2.index, base))]
              IN  IF found = "fault" THEN [c3 EXCEPT !.halted = "fault"]
                  ELSE IF found \notin {"nullptr", "unchecked"}
                  THEN [c3 EXCEPT !.halted = "assert"]
                  ELSE [c3 EXCEPT !.index = (base :> [end |-> base + op_len, op |-> o]) @@ @,
                                  !.ops = IF o \in Ops THEN [@ EXCEPT ![o] = "Emitted"]
                                          ELSE @]
              : found \in (IF is_strict THEN ip_to_op(c2.index, base) ELSE {"unchecked"})}

\* The loop of emit(pid, base, code, len) over the thread's operations, with
\* assert(emit_len <= len) after each.
RECURSIVE emit_ops(_, _, _, _, _, _, _, _)
emit_ops(cs, is_strict, base, ops, i, enabled, lens, len) ==
    IF i > Len(ops) \/ cs.halted # "no" THEN {cs}
    ELSE UNION {
           LET emit_len == c.emit_len + c.op_len
               c4 == IF c.halted # "no" THEN c
                     ELSE [c EXCEPT !.emit_len = emit_len,
                                    !.halted = IF is_strict /\ emit_len > len
                                               THEN "assert" ELSE "no"]
           IN  emit_ops(c4, is_strict, base, ops, i + 1, enabled, lens, len)
           : c \in emit_one(cs, is_strict, base + cs.emit_len, ops[i],
                            enabled[ops[i]], lens[ops[i]])}

MaxPidEmits == 2            \* calls of emit(pid, ...) in a run

\* What emit(pid, ...) can change, for the record of the call.
EmitFrame ==
    [asms |-> Asms, ip_to_op_ |-> ip_to_op_, ew_rel |-> ew_rel, mem_state |-> mem_state,
     op_state |-> op_state, threads_ |-> threads_]

\* Compiler::emit(pid, base, code, len).  Without a thread table the call
\* fails assert(threads_ != nullptr), or dereferences the null pointer.
EmitPid(P, B, L, N) ==
    /\ halted = "no"
    /\ budget.emits < N
    /\ budget.lookups = 0
    /\ make_event_pre(Asms, SizeofWriteID)
    /\ budget' = [budget EXCEPT !.emits = @ + 1]
    /\ \E pid \in P, base \in B, len \in L :
          IF threads_.null
          THEN /\ halted' = IF strict THEN "assert" ELSE "fault"
               /\ ret' = [op |-> "emit_pid", pid |-> pid, base |-> base, len |-> len,
                          result |-> 0, calls |-> <<>>, before |-> EmitFrame]
               /\ ub_hit' = (ub_hit \/ ~strict)
               /\ UNCHANGED <<asm_vars, ip_to_op_, op_state, ew_rel, mem_state, allocated,
                              made, epoch_log>>
          ELSE LET t == emit_find_thread(threads_.table, pid)
               IN  \E enabled \in {f \in [Range(t.ops) -> BOOLEAN] :
                                        \A o \in Range(t.ops) \cap MemOps : f[o]},
                      lens \in [Range(t.ops) -> MemLens] :
                   \E c \in emit_ops(CompState, strict, base, t.ops, 1, enabled, lens, len) :
                      /\ SetAsms(c.asms)
                      /\ ip_to_op_' = c.index
                      /\ op_state' = c.ops
                      /\ ew_rel' = c.rel
                      /\ mem_state' = c.mem
                      /\ allocated' = c.allocated
                      /\ made' = c.made
                      /\ epoch_log' = c.log
                      /\ halted' = c.halted
                      /\ ub_hit' = (ub_hit \/ c.ub)
                      /\ ret' = [op |-> "emit_pid", pid |-> pid, base |-> base, len |-> len,
                                 result |-> c.emit_len, calls |-> c.calls,
                                 before |-> EmitFrame]
    /\ UNCHANGED <<strict, last_op, threads_, stale_ids, reset_exhausted, ext_vars>>

\* update_from of a memory operation: get_write resolves the observed id;
\* a read records the resolved write in rf, a write records it in co.
mem_update_from(st, is_strict, rel, m, o, from_id) ==
    LET r == get_write(st, is_strict, m[o].evts, MemAddr(o), <<from_id>>, SizeofWriteID)
        edge == <<r.result[1], m[o].evts[1]>>
    IN  [asms |-> asms_of(r), halted |-> r.halted,
         rel |-> IF r.halted # "no" THEN rel
                 ELSE IF MemKind(o) = "read" THEN [rel EXCEPT !.rf = @ \cup {edge}]
                 ELSE [rel EXCEPT !.co = @ \cup {edge}],
         result |-> IF r.halted = "no" THEN "true" ELSE "none"]

MaxUpdates == 2             \* calls of update_from in an epoch

\* The ids the host can observe in memory: INIT_WRITE or one written since.
ObservedIds == {INIT_WRITE} \cup DOMAIN writes_

\* Compiler::update_from(ip, part, addr, from_id, size), the operation found
\* being a memory operation.
UpdateFromMem(I) ==
    /\ halted = "no"
    /\ budget.gets < MaxUpdates
    /\ \E ip \in I, from_id \in ObservedIds : \E found \in ip_to_op(ip_to_op_, ip) :
          /\ ub_hit' = (ub_hit \/ begin_decremented(ip_to_op_, ip))
          /\ IF found = "nullptr"
             THEN /\ ret' = [op |-> "update_from", ip |-> ip, from_id |-> from_id,
                             result |-> "false", calls |-> <<>>, before |-> EmitFrame]
                  /\ UNCHANGED <<halted, asm_vars, ew_rel, epoch_log>>
             ELSE IF found \notin MemOps
             THEN /\ ret' = [op |-> "update_from", ip |-> ip, from_id |-> from_id,
                             result |-> "none",
                             calls |-> IF found = "wild"
                                       THEN <<[m |-> "update_from", o |-> found]>>
                                       ELSE <<>>,
                             before |-> EmitFrame]
                  /\ halted' = "fault"
                  /\ UNCHANGED <<asm_vars, ew_rel, epoch_log>>
             ELSE \E u \in {mem_update_from(Asms, strict, ew_rel, mem_state, found, from_id)} :
                  /\ ret' = [op |-> "update_from", ip |-> ip, from_id |-> from_id,
                             result |-> u.result,
                             calls |-> <<[m |-> "update_from", o |-> found]>>,
                             before |-> EmitFrame]
                  /\ SetAsms(u.asms)
                  /\ ew_rel' = u.rel
                  /\ halted' = u.halted
                  /\ epoch_log' = Append(epoch_log,
                                         LogGet(mem_state[found].evts, MemAddr(found),
                                                <<from_id>>, SizeofWriteID))
    /\ budget' = [budget EXCEPT !.lookups = 1, !.gets = @ + 1]
    /\ UNCHANGED <<strict, allocated, made, stale_ids, reset_exhausted, ip_to_op_, last_op, threads_, op_state, mem_state,
                   ext_vars>>

\* A Compiler constructed with the thread table of the memory operations.
InitE2E ==
    /\ InitBase
    /\ threads_ = ThreadsWR
    /\ heap = <<>>
    /\ containers = <<>>
    /\ tables = <<>>
    /\ mem_state = [o \in MemOps |-> MemReset]
    /\ last_write_id_ = Constructed.st.last_write_id_
    /\ last_read_id_ = Constructed.st.last_read_id_
    /\ writes_ = Constructed.st.writes_
    /\ ew_events = Constructed.st.events
    /\ allocated = Constructed.allocated
    /\ epoch_log = Constructed.log

CodeLen == 8                \* size of the code buffer passed to emit(pid, ...)
E2EPids == {0, 1, 2}        \* pid 2 has no thread
E2EBases == {0, 3}
E2EIps == 0..5

NextE2E ==
    \/ EmitPid(E2EPids, E2EBases, {CodeLen}, MaxPidEmits)
    \/ UpdateFromMem(E2EIps)
    \/ CompReset({ThreadsWR, NullThreads})

SpecE2E == InitE2E /\ [][NextE2E]_vars

\* Operations that may decline: p, q and s on thread 0, t on thread 1.
LayOps == {"p", "q", "s", "t"}
ThreadsPQ == ThreadsPtr((0 :> <<"p", "q", "s">>) @@ (1 :> <<"t">>))

MaxLayEmits == 3            \* calls of emit(pid, ...) in a run of SpecLay
LayBases == {0, 1, 3}

\* A Compiler constructed with the thread table of p, q, s and t.
InitLay ==
    /\ InitBase
    /\ threads_ = ThreadsPQ
    /\ heap = <<>>
    /\ containers = <<>>
    /\ tables = <<>>
    /\ mem_state = <<>>
    /\ last_write_id_ = Constructed.st.last_write_id_
    /\ last_read_id_ = Constructed.st.last_read_id_
    /\ writes_ = Constructed.st.writes_
    /\ ew_events = Constructed.st.events
    /\ allocated = Constructed.allocated
    /\ epoch_log = Constructed.log

NextLay ==
    \/ EmitPid({0, 1}, LayBases, {CodeLen}, MaxLayEmits)
    \/ CompReset({ThreadsPQ})

SpecLay == InitLay /\ [][NextLay]_vars

NextChain ==
    \/ EmitPid(E2EPids, LayBases, {CodeLen}, MaxPidEmits)
    \/ CompReset({ThreadsPQ, NullThreads})

SpecChain == InitLay /\ [][NextChain]_vars

-----------------------------------------------------------------------------
(* threads_extract and threads_size *)

MaxContainer == 3   \* elements of a container
MaxExtracts == 2    \* threads_extract calls per behaviour

\* The caller's Operation instances: addresses 1 and 2 on thread 0, 3 on thread 1.
Insts == 1..3
InstPid(x) == IF x = 3 THEN 1 ELSE 0
Containers == {"A", "B"}

\* Operation::clone: an independent instance of the same thread.
op_clone(inst, x) == [pid |-> inst.pid, origin |-> x]

\* Mutant of threads_size: the threads are counted, not their operations.
threads_size_counts_threads(threads) == Cardinality(DOMAIN threads)

RECURSIVE SumLen(_, _)
SumLen(threads, pids) ==
    IF pids = {} THEN 0
    ELSE LET p == CHOOSE q \in pids : TRUE
         IN  Len(threads[p]) + SumLen(threads, pids \ {p})

\* threads_size: the sum of the threads' sizes.
threads_size(threads) == SumLen(threads, DOMAIN threads)

\* Mutant of extract_place: every operation is filed under the first thread.
extract_place_first_thread(result, pid, y) ==
    IF DOMAIN result = {} THEN (pid :> <<y>>)
    ELSE LET p == CHOOSE q \in DOMAIN result : TRUE
         IN  [result EXCEPT ![p] = Append(@, y)]

\* result[op->pid()].emplace_back(op)
extract_place(result, pid, y) ==
    IF pid \in DOMAIN result THEN [result EXCEPT ![pid] = Append(@, y)]
    ELSE (pid :> <<y>>) @@ result

\* The loop of threads_extract over the container, op being a reference to
\* the container's element: the element is replaced by a clone when its
\* address was not yet in `used` (insert(...).second), and the element as it
\* then is goes into the result.
RECURSIVE extract_loop(_, _)
extract_loop(st, i) ==
    IF i > Len(st.container) THEN st
    ELSE LET x == st.container[i]
             inserted == x \notin st.used
             c == Max(DOMAIN st.heap) + 1
             y == IF inserted THEN c ELSE x
             heap2 == IF inserted THEN (c :> op_clone(st.heap[x], x)) @@ st.heap
                      ELSE st.heap
         IN  extract_loop([container |-> [st.container EXCEPT ![i] = y],
                           heap |-> heap2,
                           used |-> st.used \cup {x},
                           result |-> extract_place(st.result, heap2[y].pid, y),
                           entries |-> Append(st.entries, y)], i + 1)

\* threads_extract(container); entries lists what each element contributed.
threads_extract(container, h) ==
    extract_loop([container |-> container, heap |-> h, used |-> {},
                  result |-> <<>>, entries |-> <<>>], 1)

\* Sequences over S of length at most n.
SeqUpTo(S, n) == UNION {[1..k -> S] : k \in 0..n}

\* The caller calls threads_extract on one of its containers.
ThreadsExtract ==
    /\ halted = "no"
    /\ Len(tables) < MaxExtracts
    /\ \E c \in DOMAIN containers :
       \E r \in {threads_extract(containers[c], heap)} :
          /\ containers' = [containers EXCEPT ![c] = r.container]
          /\ heap' = r.heap
          /\ tables' = Append(tables, [threads |-> r.result, input |-> containers[c],
                                       entries |-> r.entries])
          /\ ret' = [op |-> "threads_extract", container |-> c]
    /\ UNCHANGED <<strict, halted, asm_vars, asm_hist, comp_vars, ub_hit, mem_vars, budget>>

\* The caller calls threads_size on a table it got.
ThreadsSize ==
    /\ halted = "no"
    /\ \E k \in 1..Len(tables) :
          ret' = [op |-> "threads_size", table |-> k,
                  result |-> threads_size(tables[k].threads)]
    /\ UNCHANGED <<strict, halted, asm_vars, asm_hist, comp_vars, ub_hit, ext_vars,
                   mem_vars, budget>>

\* Two containers over the caller's instances, which may share instances and
\* hold an instance more than once.
InitThr ==
    /\ InitBase
    /\ \E p \in {Constructed} :
          /\ last_write_id_ = p.st.last_write_id_
          /\ last_read_id_ = p.st.last_read_id_
          /\ writes_ = p.st.writes_
          /\ ew_events = p.st.events
          /\ allocated = p.allocated
          /\ epoch_log = p.log
    /\ heap = [x \in Insts |-> [pid |-> InstPid(x), origin |-> x]]
    /\ containers \in [Containers -> SeqUpTo(Insts, MaxContainer)]
    /\ tables = <<>>
    /\ threads_ = NullThreads
    /\ mem_state = <<>>

NextThr == ThreadsExtract \/ ThreadsSize

SpecThr == InitThr /\ [][NextThr]_vars

-----------------------------------------------------------------------------
(* Properties of the address index *)

\* The starts of the intervals of index m that hold address a.
Owners(m, a) == {start \in DOMAIN m : start <= a /\ a < m[start].end}

\* Two intervals of index m share an address.
Overlapping(m) ==
    \E s1, s2 \in DOMAIN m : s1 # s2 /\ \E a \in s1..(m[s1].end - 1) : s2 \in Owners(m, a)

\* C6, as the spec states it: ip_to_op(a) returns the operation of every
\* emitted interval [start, end) with start <= a < end.  Stated for builds
\* with assert() compiled in and runs in which no lookup has decremented
\* begin(), where it still fails.
C6_Original ==
    (strict /\ ~ub_hit /\ ret.op = "ip_to_op") =>
        \A start \in Owners(ip_to_op_, ret.ip) : ret.result = ip_to_op_[start].op

\* C7, as the spec states it: with a non-empty index, ip_to_op(a) returns
\* nullptr, and the program goes on, for every a outside all the intervals.
C7_Original ==
    (ret.op = "ip_to_op" /\ DOMAIN ip_to_op_ # {} /\ Owners(ip_to_op_, ret.ip) = {}) =>
        (ret.result = "nullptr" /\ halted = "no")

\* C8, as the spec states it: when ip lies in no interval (the empty index
\* included), ip_to_op returns not found, and update_from returns false
\* without faulting, without calling an operation's update_from and without
\* changing the assembler state or the address index.
C8_Original ==
    /\ (ret.op = "ip_to_op" /\ Owners(ip_to_op_, ret.ip) = {}) =>
           (ret.result = "nullptr" /\ halted # "fault")
    /\ (ret.op = "update_from" /\ Owners(ret.before.ip_to_op_, ret.ip) = {}) =>
           /\ ret.result = "false"
           /\ halted # "fault"
           /\ ret.calls = <<>>
           /\ Asms = ret.before.asms
           /\ ip_to_op_ = ret.before.ip_to_op_

\* C9, as the spec states it: the intervals of the address index never
\* overlap.  Stated for builds with assert() compiled in (every emit passed
\* emit's own checks) and runs in which no lookup has decremented begin().
C9_Original == (strict /\ ~ub_hit) => ~Overlapping(ip_to_op_)

\* C10, as the spec states it: an enabled emit whose base lies in an
\* interval already in the index fails an assertion and leaves the index as
\* it was.  Stated for builds with assert() compiled in and runs in which no
\* lookup has decremented begin().
C10_Original ==
    (/\ strict /\ ~ub_hit
     /\ ret.op = "emit" /\ ret.enabled
     /\ Owners(ret.before.ip_to_op_, ret.base) # {}) =>
        (halted = "assert" /\ ip_to_op_ = ret.before.ip_to_op_)

-----------------------------------------------------------------------------
(* Properties of the identifier counters *)

\* The events the make_read calls of the epoch created.
ReadEvents == UNION {Range(m.result) : m \in {x \in made : x.kind = "read"}}

EarlierSamePid ==
    {m \in made : m.result # ret.result /\ m.result[1].iiid.pid = ret.pid}

\* C19, as the spec states it: the poi of every event of an earlier operation
\* of a thread is smaller than the poi of every event of a later operation of
\* that thread.
C19_Original ==
    ret.op \in {"make_write", "make_read"} =>
        \A m \in EarlierSamePid : \A k \in 1..Len(m.result), j \in 1..Len(ret.result) :
            PoiLess(m.result[k].iiid.poi, ret.result[j].iiid.poi)

\* C19 amended: within a thread the poi values go up in emission order among
\* the events of make_write and among the events of make_read; a poi of
\* make_write is below MIN_READ and a poi of make_read is not, so a read
\* emitted before a write has the larger poi.
C19_PoiIncreasingPerKind ==
    ret.op \in {"make_write", "make_read"} =>
        LET kind == IF ret.op = "make_write" THEN "write" ELSE "read"
        IN  /\ \A j \in 1..Len(ret.result) :
                  /\ j > 1 => PoiLess(ret.result[j - 1].iiid.poi, ret.result[j].iiid.poi)
                  /\ PoiLess(ret.result[j].iiid.poi, MIN_READ) <=> kind = "write"
            /\ \A m \in EarlierSamePid :
               \A k \in 1..Len(m.result), j \in 1..Len(ret.result) :
                  IF m.kind = "read" /\ kind = "write"
                  THEN PoiLess(ret.result[j].iiid.poi, m.result[k].iiid.poi)
                  ELSE PoiLess(m.result[k].iiid.poi, ret.result[j].iiid.poi)

\* C19 witness: a thread has made a write after a read of full size.
C19_Witness ==
    /\ ret.op = "make_write"
    /\ \E m \in EarlierSamePid : m.kind = "read" /\ Len(m.result) = MAX_INST_EVTS

-----------------------------------------------------------------------------
(* Properties of emit *)

\* C15: when enable_emit answers false, emit returns 0 having called nothing
\* but enable_emit; the caller's last_op cell and the address index are as
\* before, and so is the answer of ip_to_op(base).
C15_RefusedEmitNoEffect ==
    (ret.op = "emit" /\ ~ret.enabled) =>
        /\ ret.result = 0
        /\ ret.calls = <<[m |-> "enable_emit", o |-> ret.operation]>>
        /\ last_op = ret.before.last_op
        /\ ip_to_op_ = ret.before.ip_to_op_
        /\ ip_to_op(ip_to_op_, ret.base) = ip_to_op(ret.before.ip_to_op_, ret.base)
        /\ halted = "no"

\* C15 witness: an operation refuses to emit at the start of an emitted
\* interval, the caller passing a last_op cell that holds another operation.
C15_Witness ==
    /\ ret.op = "emit" /\ ~ret.enabled /\ ret.use_last
    /\ last_op \notin {"nullptr", ret.operation}
    /\ ret.base \in DOMAIN ip_to_op_
    /\ ip_to_op_[ret.base].op # ret.operation

-----------------------------------------------------------------------------
(* Properties of threads_extract *)

\* The instances a returned table references.
InstancesOf(t) == Range(t.entries)

\* C12, as the spec states it: no instance is referenced by two of the tables
\* threads_extract has returned.
C12_Original ==
    \A k, l \in 1..Len(tables) : k < l => InstancesOf(tables[k]) \cap InstancesOf(tables[l]) = {}

\* C13, as the spec states it: within one returned table all entries are
\* pairwise distinct instances.
C13_Original ==
    \A k \in 1..Len(tables) : \A i, j \in 1..Len(tables[k].entries) :
        i # j => tables[k].entries[i] # tables[k].entries[j]

\* The entries of thread pid, in the order of the container.
EntriesOfPid(t, pid) == SelectSeq(t.entries, LAMBDA y : heap[y].pid = pid)

\* C14: element i of the container contributes one entry, itself or its
\* clone, of the same pid; the sequence of a thread is the entries of its pid
\* in container order; only pids of elements are keys; threads_size is the
\* number of elements.
C14_Partition ==
    /\ \A k \in 1..Len(tables) :
          LET t == tables[k]
          IN  /\ Len(t.entries) = Len(t.input)
              /\ \A i \in 1..Len(t.input) :
                    /\ t.entries[i] = t.input[i] \/ heap[t.entries[i]].origin = t.input[i]
                    /\ heap[t.entries[i]].pid = heap[t.input[i]].pid
              /\ DOMAIN t.threads = {heap[x].pid : x \in Range(t.input)}
              /\ \A pid \in DOMAIN t.threads : t.threads[pid] = EntriesOfPid(t, pid)
    /\ ret.op = "threads_size" => ret.result = Len(tables[ret.table].input)

\* C14 witness: threads_size of a table of two threads, one of them holding
\* two operations.
C14_Witness ==
    /\ ret.op = "threads_size"
    /\ ret.result = MaxContainer
    /\ Cardinality(DOMAIN tables[ret.table].threads) = 2

-----------------------------------------------------------------------------
(* Properties of emit(pid, ...) and of reset *)

\* C16: emit(pid, base, code, len) for a pid that is not a key of the current
\* thread table returns 0 without stopping the program and changes nothing:
\* no method of any operation is called, no identifier is allocated, and the
\* address index, the witness and the operations are as before the call.
C16_UnknownPidNoEffect ==
    (/\ ret.op = "emit_pid"
     /\ ~ret.before.threads_.null
     /\ ret.pid \notin DOMAIN ret.before.threads_.table)
    => /\ ret.result = 0
       /\ ret.calls = <<>>
       /\ halted = "no"
       /\ Asms = ret.before.asms
       /\ ip_to_op_ = ret.before.ip_to_op_
       /\ ew_rel = ret.before.ew_rel
       /\ mem_state = ret.before.mem_state
       /\ op_state = ret.before.op_state

\* An unknown pid is probed after a thread has been emitted.
C16_Witness ==
    /\ ret.op = "emit_pid"
    /\ ~ret.before.threads_.null
    /\ ret.pid \notin DOMAIN ret.before.threads_.table
    /\ ret.before.ip_to_op_ # <<>>
    /\ ret.before.ew_rel.po # {}

\* C20: after Compiler::reset(threads), and after construction, every
\* operation of the supplied table is reset, the assembler's counters are at
\* their initial values with an empty write index, the witness is empty and
\* the address index is empty: ip_to_op finds nothing at any address.
C20_ResetClearsEpoch ==
    ret.op \in {"init", "compiler_reset"}
    => /\ \A o \in OpsOf(threads_) :
             /\ o \in MemOps => mem_state[o] = MemReset
             /\ o \in Ops => op_state[o] = "Reset"
       /\ last_write_id_ = (MIN_WRITE - 1) % WriteIDMod
       /\ last_read_id_ = PoiDec(MIN_READ)
       /\ writes_ = <<>>
       /\ ew_events = {}
       /\ ew_rel = NoRelations
       /\ ip_to_op_ = <<>>
       /\ \A ip \in E2EIps : ip_to_op(ip_to_op_, ip) = {"nullptr"}

\* A reset with a thread table, after both threads were emitted and an
\* observation was recorded in the epoch before.
C20_Witness ==
    /\ ret.op = "compiler_reset"
    /\ ~threads_.null
    /\ stale_ids # {}
    /\ budget.emits = MaxPidEmits

-----------------------------------------------------------------------------
(* End to end: a write of one sub-word followed by a read of the same address *)

\* The epoch holds the emission of thread 0 and nothing else: the write w
\* followed by the read r.
OnlyThreadZeroEmitted(index, m) ==
    /\ m["w"].evts # <<>>
    /\ m["r"].evts # <<>>
    /\ DOMAIN index = {m["w"].at, m["r"].at}
    /\ index[m["w"].at].op = "w"
    /\ index[m["r"].at].op = "r"
    /\ index[m["w"].at].end = m["r"].at

\* C11: on one thread, after reset and emission of a write of one sub-word at
\* address A followed by a read of A, program order contains (write event,
\* read event); update_from at an instruction pointer of the read with the id
\* allocated to the write then succeeds and leaves exactly the pair (write
\* event, read event) in the read-from relation.
C11_WriteThenRead ==
    /\ (/\ ret.op = "emit_pid"
        /\ ret.pid = 0
        /\ ~ret.before.threads_.null
        /\ halted = "no")
       => /\ mem_state["w"].evts[1].type = "Write"
          /\ mem_state["r"].evts[1].type = "Read"
          /\ mem_state["w"].evts[1].addr = mem_state["r"].evts[1].addr
          /\ <<mem_state["w"].evts[1], mem_state["r"].evts[1]>> \in ew_rel.po
          /\ ret.result = ip_to_op_[mem_state["r"].at].end - ret.base
    /\ (/\ ret.op = "update_from"
        /\ OnlyThreadZeroEmitted(ip_to_op_, mem_state)
        /\ mem_state["r"].at <= ret.ip
        /\ ret.ip < ip_to_op_[mem_state["r"].at].end
        /\ ret.before.ew_rel.rf = {}
        /\ ret.from_id = mem_state["w"].data[1])
       => /\ ret.result = "true"
          /\ halted = "no"
          /\ ew_rel.rf = {<<mem_state["w"].evts[1], mem_state["r"].evts[1]>>}
          /\ <<mem_state["w"].evts[1], mem_state["r"].evts[1]>> \in ew_rel.po

\* The observation is fed back at the second byte of the read's code.
C11_Witness ==
    /\ ret.op = "update_from"
    /\ OnlyThreadZeroEmitted(ip_to_op_, mem_state)
    /\ ret.ip = mem_state["r"].at + 1
    /\ ret.ip < ip_to_op_[mem_state["r"].at].end
    /\ ret.before.ew_rel.rf = {}
    /\ ret.from_id = mem_state["w"].data[1]
    /\ ew_rel.rf = {<<mem_state["w"].evts[1], mem_state["r"].evts[1]>>}

-----------------------------------------------------------------------------
(* The operation lifecycle through the Compiler *)

\* The operation has a non-empty interval in the index: since the last
\* reset it answered enable_emit with true, received insert_po and emitted
\* a non-zero number of bytes.
EmittedThisEpoch(index, o) ==
    \E start \in DOMAIN index : index[start].op = o /\ index[start].end > start

\* C21, as the spec states it: Operation::update_from is invoked only on an
\* operation that, since the most recent Compiler::reset, was enabled,
\* received insert_po and emitted a non-zero number of bytes.
C21_Original ==
    ret.op = "update_from"
    => \A k \in 1..Len(ret.calls) :
          /\ ret.calls[k].o \in Ops
          /\ EmittedThisEpoch(ip_to_op_, ret.calls[k].o)

-----------------------------------------------------------------------------
(* Properties of get_write's resolution *)

Min(S) == CHOOSE x \in S : \A y \in S : x <= y

\* Sub-word i of the get_write call recorded in ret resolves: its observed
\* id is not INIT_WRITE and is a key of the write index, the indexed event
\* lies at addr + i and has another Iiid than after[i].
Resolves(i) ==
    /\ ret.from_id[i] # INIT_WRITE
    /\ ret.from_id[i] \in DOMAIN ret.before.writes_
    /\ ret.before.writes_[ret.from_id[i]].addr = ret.addr + (i - 1)
    /\ ret.before.writes_[ret.from_id[i]].iiid # ret.after[i].iiid

\* The sub-words of the call whose id is not INIT_WRITE and fails resolution.
FailedSubWords ==
    {i \in 1..(ret.size \div SizeofWriteID) : ret.from_id[i] # INIT_WRITE /\ ~Resolves(i)}

\* C22: with assert() compiled in, get_write given a sub-word id that is not
\* INIT_WRITE and fails resolution stops at that sub-word on the assertion
\* and returns no event for it; with assert() compiled out the call goes on
\* and the sub-word gets the synthetic initial event of its address.
C22_StrictInvalidIdStops ==
    (ret.op = "get_write" /\ FailedSubWords # {})
    => IF strict
       THEN /\ halted = "assert"
            /\ Len(ret.result) = Min(FailedSubWords) - 1
       ELSE /\ halted = "no"
            /\ Len(ret.result) = ret.size \div SizeofWriteID
            /\ \A i \in FailedSubWords :
                  ret.result[i] =
                     Event("Write", ret.addr + (i - 1), Iiid(InitPid, Poi(ret.addr + (i - 1))))

\* With assert() compiled in, a call stops at a later sub-word, on an id that
\* is a key of the write index but fails the address or the Iiid test.
C22_Witness ==
    /\ strict
    /\ ret.op = "get_write"
    /\ halted = "assert"
    /\ Len(ret.result) >= 1
    /\ ret.from_id[Len(ret.result) + 1] \in DOMAIN ret.before.writes_

\* C27, as the spec states it: the event returned for a sub-word is an
\* indexed write event only if the sub-word resolves; get_write never
\* returns a write at another address than the sub-word's and never returns
\* the after event itself.
C27_Original ==
    ret.op = "get_write"
    => \A i \in 1..Len(ret.result) :
          /\ ret.result[i] \in Range(ret.before.writes_) => Resolves(i)
          /\ ret.result[i].addr = ret.addr + (i - 1)
          /\ ret.result[i] # ret.after[i]

\* C27, amended: a sub-word that resolves gets the event indexed under its
\* id, any other the synthetic initial event; the returned event lies at the
\* sub-word's address; and, as long as no make_write of the epoch used the
\* reserved pid -1, an indexed event is returned only for a sub-word that
\* resolves and the after event itself is never returned.
C27_ResolvedOnlyIfValid ==
    ret.op = "get_write"
    => \A i \in 1..Len(ret.result) :
          /\ ret.result[i] =
                IF Resolves(i) THEN ret.before.writes_[ret.from_id[i]]
                ELSE Event("Write", ret.addr + (i - 1), Iiid(InitPid, Poi(ret.addr + (i - 1))))
          /\ ret.result[i].addr = ret.addr + (i - 1)
          /\ Resolves(i) => ret.result[i].iiid # ret.after[i].iiid
          /\ NoReservedPid =>
                /\ ret.result[i] \in Range(ret.before.writes_) => Resolves(i)
                /\ ret.result[i] # ret.after[i]

\* A call that returns an indexed write for one sub-word and refuses, for
\* another, an id that is indexed at another address or is the after event's.
C27_Witness ==
    /\ ret.op = "get_write"
    /\ halted = "no"
    /\ \E i, j \in 1..Len(ret.result) :
          /\ Resolves(i)
          /\ ~Resolves(j)
          /\ ret.from_id[j] \in DOMAIN ret.before.writes_

-----------------------------------------------------------------------------
(* Properties of emit's checks on the backend's length *)

\* Every interval of the index holds at least one address.
NoEmptyInterval(index) == \A start \in DOMAIN index : index[start].end > start

\* C23, as the spec states it: when enable_emit returns true and the backend
\* produces zero bytes, emit stops on an assertion and inserts no entry; a
\* zero-length interval is never stored.
C23_Original ==
    /\ (ret.op = "emit" /\ ret.enabled /\ ret.result = 0)
       => (halted = "assert" /\ ip_to_op_ = ret.before.ip_to_op_)
    /\ NoEmptyInterval(ip_to_op_)

\* C23, amended: that holds of builds with assert() compiled in; with
\* assert() compiled out emit returns 0 and stores the interval [base, base)
\* for the operation, in place of the entry starting at base if there is one.
C23_ZeroLengthRefused ==
    /\ (ret.op = "emit" /\ ret.enabled /\ ret.result = 0)
       => IF strict
          THEN halted = "assert" /\ ip_to_op_ = ret.before.ip_to_op_
          ELSE /\ halted = "no"
               /\ ip_to_op_ = (ret.base :> [end |-> ret.base, op |-> ret.operation])
                                  @@ ret.before.ip_to_op_
    /\ strict => NoEmptyInterval(ip_to_op_)

\* With assert() compiled in, a backend returns 0 for an enabled operation
\* while the index holds an interval.
C23_Witness ==
    /\ strict
    /\ ret.op = "emit"
    /\ ret.enabled
    /\ ret.result = 0
    /\ ret.before.ip_to_op_ # <<>>

-----------------------------------------------------------------------------
(* Properties of emit(pid, ...): layout and program-order chaining *)

IsEnableEmit(c) == c.m = "enable_emit"
IsEnabled(c) == c.m = "enable_emit" /\ c.result
IsInsertPo(c) == c.m = "insert_po"
IsBackend(c) == c.m = "backend"

\* The operations of a list of calls, in call order.
OpsCalled(calls) == [k \in 1..Len(calls) |-> calls[k].o]

\* The bytes the first k backend calls of B produced.
RECURSIVE SumLens(_, _)
SumLens(B, k) == IF k = 0 THEN 0 ELSE B[k].len + SumLens(B, k - 1)

\* emit(pid, ...) of a thread of the table has returned.
EmitPidReturned ==
    /\ ret.op = "emit_pid"
    /\ halted = "no"
    /\ ~ret.before.threads_.null
    /\ ret.pid \in DOMAIN ret.before.threads_.table

\* C24, as the spec states it: emit(pid, ...) asks every operation of the
\* thread in sequence order; the i-th operation that emits starts at base
\* plus the lengths of the earlier ones, a declining operation occupies no
\* address, the result is the sum of the lengths and at most len, and every
\* address of [base, base + result) then resolves through ip_to_op to the
\* operation whose bytes cover it.  Stated for builds with assert() compiled
\* in and runs in which no lookup has decremented begin().
C24_Original ==
    (strict /\ ~ub_hit /\ EmitPidReturned)
    => LET B == SelectSeq(ret.calls, IsBackend)
       IN  /\ OpsCalled(SelectSeq(ret.calls, IsEnableEmit))
                 = ret.before.threads_.table[ret.pid]
           /\ OpsCalled(B) = OpsCalled(SelectSeq(ret.calls, IsEnabled))
           /\ \A k \in 1..Len(B) : B[k].at = ret.base + SumLens(B, k - 1)
           /\ ret.result = SumLens(B, Len(B))
           /\ ret.result <= ret.len
           /\ \A k \in 1..Len(B) : \A a \in B[k].at..(B[k].at + B[k].len - 1) :
                 ip_to_op(ip_to_op_, a) = {B[k].o}

\* C25: in emit(pid, ...) of a thread of the table, exactly the operations
\* whose enable_emit returned true receive insert_po, in sequence order; the
\* first of them with before = nullptr, every later one with the one before
\* it among them.  Hence a declining operation is never passed as before,
\* nor an operation of another thread.
C25_PoChain ==
    (/\ ret.op = "emit_pid"
     /\ ~ret.before.threads_.null
     /\ ret.pid \in DOMAIN ret.before.threads_.table)
    => LET I == SelectSeq(ret.calls, IsInsertPo)
           E == SelectSeq(ret.calls, IsEnabled)
           thread == ret.before.threads_.table[ret.pid]
       IN  /\ OpsCalled(I) = OpsCalled(E)
           /\ \A k \in 1..Len(I) :
                 I[k].before = IF k = 1 THEN "nullptr" ELSE E[k - 1].o
           /\ \A k \in 1..Len(I) :
                 \/ I[k].before = "nullptr"
                 \/ /\ I[k].before \in Range(thread)
                    /\ \A c \in Range(ret.calls) :
                          (IsEnableEmit(c) /\ c.o = I[k].before) => c.result

\* Thread 0 is emitted after thread 1: p is enabled, q declines, and s
\* is linked after p.
C25_Witness ==
    /\ ret.op = "emit_pid"
    /\ halted = "no"
    /\ ret.pid = 0
    /\ \E c \in Range(ret.before.ip_to_op_) : c.op = "t"
    /\ [m |-> "enable_emit", o |-> "q", result |-> FALSE] \in Range(ret.calls)
    /\ [m |-> "insert_po", o |-> "s", before |-> "p"] \in Range(ret.calls)

-----------------------------------------------------------------------------
(* Properties of the Iiids of an epoch *)

\* The events of the epoch, each with the call and the sub-word that made it.
MadeSlots == {<<m, k>> : m \in made, k \in 1..MAX_INST_EVTS}

SlotEvent(slot) == slot[1].result[slot[2]]

Slots == {slot \in MadeSlots : slot[2] <= Len(slot[1].result)}

\* C26: the events make_read and make_write created in the epoch have
\* pairwise distinct Iiids; a read's poi is at least MIN_READ and above the
\* poi of every read made before it, a write's poi is at most 0xFF, so a
\* read and a write never share a poi; and as long as no thread uses the
\* reserved pid -1 none of them has the Iiid of a synthetic initial event.
C26_DistinctIiids ==
    /\ \A x, y \in Slots : x # y => SlotEvent(x).iiid # SlotEvent(y).iiid
    /\ \A x \in Slots :
          IF x[1].kind = "read"
          THEN PoiGeq(SlotEvent(x).iiid.poi, MIN_READ)
          ELSE ~PoiLess(Poi(WriteIDMod - 1), SlotEvent(x).iiid.poi)
    /\ \A x, y \in Slots :
          (x[1].kind = "read" /\ y[1].kind = "write")
          => SlotEvent(x).iiid.poi # SlotEvent(y).iiid.poi
    /\ ret.op = "make_read"
       => /\ \A j \in 2..Len(ret.result) :
                PoiLess(ret.result[j - 1].iiid.poi, ret.result[j].iiid.poi)
          /\ \A x \in Slots :
                (x[1].kind = "read" /\ x[1].result # ret.result)
                => PoiLess(SlotEvent(x).iiid.poi, ret.result[1].iiid.poi)
    /\ NoReservedPid
       => \A x \in Slots, addr \in 0..(Max(Addrs) + MAX_INST_SIZE) :
             SlotEvent(x).iiid # initial_event(addr).iiid

\* A thread has made a read of full size and then a write of several
\* sub-words at the same address.
C26_Witness ==
    /\ ret.op = "make_write"
    /\ Len(ret.result) >= 2
    /\ NoReservedPid
    /\ \E m \in made :
          /\ m.kind = "read"
          /\ Len(m.result) = MAX_INST_EVTS
          /\ m.result[1].iiid.pid = ret.pid
          /\ m.result[1].addr = ret.addr

-----------------------------------------------------------------------------
(* Iiid: Next, Prev and operator< (memconsistency/eventsets.hpp) *)

PoiMax == <<LimbMod - 1, LimbMod - 1, LimbMod - 1, LimbMod - 1>>

\* Iiid::Next
iiid_next(x) == Iiid(x.pid, PoiInc(x.poi))

\* Iiid::Prev: assert(poi > 0), then the value with poi - 1.
iiid_prev(x, is_strict) ==
    IF is_strict /\ x.poi = Poi(0) THEN [halted |-> "assert", result |-> x]
    ELSE [halted |-> "no", result |-> Iiid(x.pid, PoiDec(x.poi))]

\* Mutant of iiid_less: the pid is not looked at.
iiid_less_poi_only(x, y) == PoiLess(x.poi, y.poi)

\* Iiid::operator<
iiid_less(x, y) == x.pid < y.pid \/ (x.pid = y.pid /\ PoiLess(x.poi, y.poi))

MaxIiidCalls == 2           \* calls of Next, Prev and < in a run

\* Iiids at the ends of the poi range and around a carry between limbs.
IiidPois ==
    {Poi(0), Poi(1), Poi(LimbMod - 1), <<0, 0, 1, 0>>, PoiDec(MIN_READ), MIN_READ,
     PoiDec(PoiMax), PoiMax}
Iiids == {Iiid(pid, poi) : pid \in {InitPid, 0, 1}, poi \in IiidPois}

\* The receivers of a call: a given Iiid, or the result of the call before.
Receivers(X) == X \cup (IF ret.op \in {"Next", "Prev"} THEN {ret.result} ELSE {})

\* The call before, when its result is the receiver of this one.
Origin(x) ==
    IF ret.op \in {"Next", "Prev"} /\ ret.result = x
    THEN [op |-> ret.op, x |-> ret.x] ELSE [op |-> "none", x |-> x]

IiidFrame ==
    UNCHANGED <<strict, asm_vars, asm_hist, comp_vars, ub_hit, ext_vars, mem_vars>>

\* x.Next()
IiidNext(X) ==
    /\ halted = "no"
    /\ budget.iiids < MaxIiidCalls
    /\ \E x \in Receivers(X) :
          ret' = [op |-> "Next", x |-> x, receiver |-> x, result |-> iiid_next(x),
                  origin |-> Origin(x)]
    /\ budget' = [budget EXCEPT !.iiids = @ + 1]
    /\ UNCHANGED halted
    /\ IiidFrame

\* x.Prev()
IiidPrev(X) ==
    /\ halted = "no"
    /\ budget.iiids < MaxIiidCalls
    /\ \E x \in Receivers(X) : \E r \in {iiid_prev(x, strict)} :
          /\ ret' = [op |-> "Prev", x |-> x, receiver |-> x, result |-> r.result,
                     origin |-> Origin(x)]
          /\ halted' = r.halted
    /\ budget' = [budget EXCEPT !.iiids = @ + 1]
    /\ IiidFrame

\* x < y
IiidLess(X) ==
    /\ halted = "no"
    /\ budget.iiids < MaxIiidCalls
    /\ \E x \in Receivers(X), y \in Receivers(X) :
          ret' = [op |-> "less", x |-> x, y |-> y,
                  result |-> IF iiid_less(x, y) THEN "true" ELSE "false"]
    /\ budget' = [budget EXCEPT !.iiids = @ + 1]
    /\ UNCHANGED halted
    /\ IiidFrame

NextIiid ==
    \/ IiidNext(Iiids)
    \/ IiidPrev(Iiids)
    \/ IiidLess(Iiids)

SpecIiid == InitComp /\ [][NextIiid]_vars

\* x < y, with the answer `less`, is as a strict total order has it: the
\* lexicographic order of (pid, poi); not both x < y and y < x; one of them
\* unless x = y; and x < z for every z above y.
StrictTotalAt(x, y, less) ==
    /\ less <=> (x.pid < y.pid \/ (x.pid = y.pid /\ PoiLess(x.poi, y.poi)))
    /\ ~(less /\ iiid_less(y, x))
    /\ x # y => (less \/ iiid_less(y, x))
    /\ x = y => ~less
    /\ less => \A z \in Iiids : iiid_less(y, z) => iiid_less(x, z)

\* C28, as the spec states it: Next and Prev return the adjacent value and
\* leave the receiver unchanged; Prev(Next(x)) = x when x.poi is below the
\* maximum, Next(Prev(x)) = x when x.poi > 0; Prev on poi = 0 fails an
\* assertion (with assert() compiled in); x < Next(x); and < is a strict
\* total order.
C28_Original ==
    /\ ret.op = "Next"
       => /\ ret.receiver = ret.x
          /\ ret.result = Iiid(ret.x.pid, PoiInc(ret.x.poi))
          /\ iiid_less(ret.x, ret.result)
          /\ (ret.origin.op = "Prev" /\ ret.origin.x.poi # Poi(0))
                => ret.result = ret.origin.x
    /\ ret.op = "Prev"
       => /\ ret.receiver = ret.x
          /\ IF ret.x.poi = Poi(0)
             THEN strict => halted = "assert"
             ELSE halted = "no" /\ ret.result = Iiid(ret.x.pid, PoiDec(ret.x.poi))
          /\ (ret.origin.op = "Next" /\ ret.origin.x.poi # PoiMax)
                => halted = "no" /\ ret.result = ret.origin.x
    /\ ret.op = "less" => StrictTotalAt(ret.x, ret.y, ret.result = "true")

\* C28, amended: the same, with x < Next(x) for every x whose poi is below
\* the maximum; at the maximum Next wraps to poi 0 and Next(x) < x.  With
\* assert() compiled out Prev on poi = 0 returns the Iiid of the maximal poi.
C28_AdjacentIiids ==
    /\ ret.op = "Next"
       => /\ ret.receiver = ret.x
          /\ ret.result = Iiid(ret.x.pid, PoiInc(ret.x.poi))
          /\ IF ret.x.poi # PoiMax THEN iiid_less(ret.x, ret.result)
             ELSE ret.result.poi = Poi(0) /\ iiid_less(ret.result, ret.x)
          /\ (ret.origin.op = "Prev" /\ ret.origin.x.poi # Poi(0))
                => ret.result = ret.origin.x
    /\ ret.op = "Prev"
       => /\ ret.receiver = ret.x
          /\ IF ret.x.poi = Poi(0)
             THEN IF strict THEN halted = "assert"
                  ELSE halted = "no" /\ ret.result = Iiid(ret.x.pid, PoiMax)
             ELSE halted = "no" /\ ret.result = Iiid(ret.x.pid, PoiDec(ret.x.poi))
          /\ (ret.origin.op = "Next" /\ ret.origin.x.poi # PoiMax)
                => halted = "no" /\ ret.result = ret.origin.x
    /\ ret.op = "less" => StrictTotalAt(ret.x, ret.y, ret.result = "true")

\* Prev is called on the result of Next across a carry between limbs.
C28_Witness ==
    /\ ret.op = "Prev"
    /\ halted = "no"
    /\ ret.origin.op = "Next"
    /\ ret.origin.x.poi = Poi(LimbMod - 1)
    /\ ret.result = ret.origin.x

-----------------------------------------------------------------------------
(* Epochs: the assembler's state as a function of the calls since the reset *)

\* One logged call applied to the assembler st in the given build.
replay_call(st, is_strict, e) ==
    IF e.op = "make_write" THEN make_write(st, e.pid, e.type, e.addr, e.size)
    ELSE IF e.op = "make_read" THEN make_read(st, e.pid, e.type, e.addr, e.size)
    ELSE get_write(st, is_strict, e.after, e.addr, e.from_id, e.size)

\* The first n calls of log made on a freshly constructed AssemblerState: the
\* working state of the last call and the [id, event] pairs handed out so far.
RECURSIVE Replay(_, _, _)
Replay(log, is_strict, n) ==
    IF n = 0 THEN [r |-> call_state(Constructed.st), allocated |-> <<>>]
    ELSE LET p == Replay(log, is_strict, n - 1)
             r == replay_call(asms_of(p.r), is_strict, log[n])
         IN  [r |-> r,
              allocated |-> IF log[n].op = "make_write" THEN p.allocated \o Pairs(r)
                            ELSE p.allocated]

AssemblerCalls == {"make_write", "make_read", "get_write"}

\* C29: the write ids and Iiids handed out in an epoch, the write index and
\* the result of get_write are those of the same calls, with the same
\* arguments, made on a freshly constructed AssemblerState: nothing that
\* preceded the reset shows.
C29_EpochDeterminism ==
    LET p == Replay(epoch_log, strict, Len(epoch_log))
    IN  /\ Asms = asms_of(p.r)
        /\ allocated = p.allocated
        /\ (ret.op \in AssemblerCalls /\ epoch_log # <<>>)
              => /\ ret.result = p.r.result
                 /\ halted = p.r.halted
                 /\ ret.op = "make_write" => ret.data = p.r.data

\* A get_write answered in an epoch that follows a reset, after write ids had
\* been handed out in the epoch before.
C29_Witness ==
    /\ ret.op = "get_write"
    /\ halted = "no"
    /\ budget.resets = 1
    /\ stale_ids # {}
    /\ Len(epoch_log) = 2
    /\ epoch_log[1].op = "make_write"

====
